---- MODULE Spec2Model ----
(***************************************************************************)
(* Model of the SaaS Todo API (src/main.py): the "todo" collection of the  *)
(* document store, and the handlers list_todos, create_todo, update_todo   *)
(* and delete_todo with the request validation FastAPI performs from the   *)
(* TodoIn schema before a handler runs.                                    *)
(*                                                                         *)
(* Python values that may be None are tagged records, so that the filter   *)
(* "v is not None" of update_todo is computed as the code computes it.     *)
(* Strings are sequences of one-character strings.                         *)
(***************************************************************************)
EXTENDS Integers, Sequences, FiniteSets, TLC

VARIABLES store, nextId, clock, pending, resp

vars == <<store, nextId, clock, pending, resp>>

----------------------------------------------------------------------------
(* Bounds of the model *)

\* create requests that reach the store in one behaviour
MaxCreates == 2

\* update requests that read the clock in one behaviour
MaxClock == 2

----------------------------------------------------------------------------
(* Program constants *)

\* Field(..., min_length=1, max_length=200)
MinTitleLen == 1

MaxTitleLen == 200

\* Field(None, max_length=1000)
MaxDescLen == 1000

\* get_documents("todo", {}, limit=100)
ListLimit == 100

\* an ObjectId is 12 bytes, written as two hexadecimal digits per byte
OidHexLen == 2 * 12

----------------------------------------------------------------------------
(* Python values *)

None == [t |-> "none"]

Str(s) == [t |-> "str", v |-> s]

Bool(b) == [t |-> "bool", v |-> b]

Rep(n) == [i \in 1..n |-> "a"]

Fields == {"title", "description", "completed", "priority"}

----------------------------------------------------------------------------
(* bson.ObjectId: parsing a string, and str() of a key *)

HexLower == <<"0","1","2","3","4","5","6","7","8","9","a","b","c","d","e","f">>

HexUpper == <<"0","1","2","3","4","5","6","7","8","9","A","B","C","D","E","F">>

IsHex(c) == \E d \in 1..16 : HexLower[d] = c \/ HexUpper[d] = c

DigitVal(c) == (CHOOSE d \in 1..16 : HexLower[d] = c \/ HexUpper[d] = c) - 1

\* ObjectId(s) raises unless s is 24 hexadecimal digits (either case)
ObjectIdValid(s) == Len(s) = OidHexLen /\ \A i \in 1..Len(s) : IsHex(s[i])

RECURSIVE ParseHex(_)
ParseHex(s) ==
    IF s = <<>> THEN 0
    ELSE 16 * ParseHex(SubSeq(s, 1, Len(s) - 1)) + DigitVal(s[Len(s)])

\* ObjectId(s): the key a valid string denotes
ObjectId(s) == ParseHex(s)

RECURSIVE HexN(_, _)
HexN(k, n) ==
    IF n = 0 THEN <<>> ELSE Append(HexN(k \div 16, n - 1), HexLower[(k % 16) + 1])

\* str(oid): 24 lower-case hexadecimal digits
OidStr(k) == HexN(k, OidHexLen)

ToUpper(s) ==
    [i \in 1..Len(s) |->
        IF \E d \in 1..16 : HexLower[d] = s[i]
        THEN HexUpper[CHOOSE d \in 1..16 : HexLower[d] = s[i]]
        ELSE s[i]]

----------------------------------------------------------------------------
(* The keys the store's driver assigns, and the documents already stored *)

\* the driver's key counter starts at an arbitrary value
KeyBase == 10 * 16 * 16

NewKey(n) == KeyBase + n

\* documents created before the first request of a behaviour
PreLoaded == ListLimit - 1

OldDoc(j) ==
    [k \in {"_id"} \cup Fields |->
        CASE k = "_id" -> KeyBase - (PreLoaded + 1) + j
          [] k = "title" -> Str(Rep(1))
          [] k = "description" -> None
          [] k = "completed" -> Bool(FALSE)
          [] k = "priority" -> None]

OldStore == [j \in 1..PreLoaded |-> OldDoc(j)]

----------------------------------------------------------------------------
(* class TodoIn: the request body and its validation *)

\* request bodies: a JSON object is a function from the keys it holds
Payloads ==
    { [title |-> Str(Rep(MinTitleLen))],
      [title |-> Str(Rep(MaxTitleLen)), description |-> Str(<<"d">>),
       completed |-> Bool(TRUE), priority |-> Str(<<"p">>)],
      [title |-> Str(Rep(MinTitleLen)), completed |-> Bool(FALSE)],
      [completed |-> Bool(FALSE)],
      [title |-> Str(Rep(MinTitleLen - 1))],
      [title |-> Str(Rep(MaxTitleLen + 1)), completed |-> Bool(TRUE)] }

Has(raw, k) == k \in DOMAIN raw

\* a title bound that excludes the maximum length
TitleOk_ExclusiveMax(raw) ==
    /\ Has(raw, "title")
    /\ raw["title"].t = "str"
    /\ Len(raw["title"].v) >= MinTitleLen
    /\ Len(raw["title"].v) < MaxTitleLen

\* title: str = Field(..., min_length=1, max_length=200)
TitleOk(raw) ==
    /\ Has(raw, "title")
    /\ raw["title"].t = "str"
    /\ Len(raw["title"].v) >= MinTitleLen
    /\ Len(raw["title"].v) <= MaxTitleLen

\* description: Optional[str] = Field(None, max_length=1000)
DescriptionOk(raw) ==
    Has(raw, "description") =>
        \/ raw["description"] = None
        \/ raw["description"].t = "str" /\ Len(raw["description"].v) <= MaxDescLen

\* completed: bool = False
CompletedOk(raw) == Has(raw, "completed") => raw["completed"].t = "bool"

\* priority: Optional[str] = Field(None)
PriorityOk(raw) == Has(raw, "priority") => raw["priority"].t \in {"none", "str"}

\* the body parses as a TodoIn; otherwise FastAPI answers 422 and no handler runs
Valid(raw) == TitleOk(raw) /\ DescriptionOk(raw) /\ CompletedOk(raw) /\ PriorityOk(raw)

\* the TodoIn built from a valid body: absent fields take the declared defaults
TodoIn(raw) ==
    [k \in Fields |->
        IF Has(raw, k) THEN raw[k]
        ELSE IF k = "completed" THEN Bool(FALSE) ELSE None]

\* payload.model_dump(): every field of the model, defaults included
model_dump(payload) == [k \in Fields |-> payload[k]]

----------------------------------------------------------------------------
(* The store: the "todo" collection, in insertion order *)

Min(a, b) == IF a < b THEN a ELSE b

Get(doc, k, default) == IF k \in DOMAIN doc THEN doc[k] ELSE default

\* the position of the first document with this key, 0 when there is none
Index(s, oid) ==
    LET hits == {i \in 1..Len(s) : s[i]["_id"] = oid}
    IN IF hits = {} THEN 0 ELSE CHOOSE i \in hits : \A j \in hits : i <= j

\* create_document(collection, payload): insert the payload's fields under a new key
create_document(s, payload, key) ==
    Append(s, [k \in {"_id"} \cup Fields |->
                  IF k = "_id" THEN key ELSE model_dump(payload)[k]])

\* get_documents(collection, {}, limit): the first documents, at most limit
get_documents(s, limit) == SubSeq(s, 1, Min(Len(s), limit))

\* collection.find_one({"_id": oid}): <<>> stands for Python's None
find_one(s, oid) ==
    LET i == Index(s, oid) IN IF i = 0 THEN <<>> ELSE <<s[i]>>

\* a merge that appends to the stored title instead of overwriting it
SetFields_AppendTitle(doc, update) ==
    [k \in DOMAIN doc \cup DOMAIN update |->
        IF k = "title" /\ k \in DOMAIN update /\ k \in DOMAIN doc
        THEN Str(doc[k].v \o update[k].v)
        ELSE IF k \in DOMAIN update THEN update[k] ELSE doc[k]]

\* {"$set": update} applied to one document
SetFields(doc, update) ==
    [k \in DOMAIN doc \cup DOMAIN update |->
        IF k \in DOMAIN update THEN update[k] ELSE doc[k]]

\* find_one_and_update with upsert=True: a missing key gets a new document
find_one_and_update_Upsert(s, oid, update) ==
    LET i == Index(s, oid)
    IN IF i = 0
       THEN Append(s, [k \in {"_id"} \cup DOMAIN update |->
                          IF k = "_id" THEN oid ELSE update[k]])
       ELSE [s EXCEPT ![i] = SetFields(s[i], update)]

\* the collection after find_one_and_update({"_id": oid}, {"$set": update})
find_one_and_update(s, oid, update) ==
    LET i == Index(s, oid)
    IN IF i = 0 THEN s ELSE [s EXCEPT ![i] = SetFields(s[i], update)]

\* delete_one with an empty filter: the first document goes, whatever its key
delete_one_NoFilter(s, oid) == IF s = <<>> THEN s ELSE Tail(s)

\* the collection after delete_one({"_id": oid})
delete_one(s, oid) ==
    LET i == Index(s, oid)
    IN IF i = 0 THEN s ELSE SubSeq(s, 1, i - 1) \o SubSeq(s, i + 1, Len(s))

\* res.deleted_count
deleted_count(s, oid) == IF Index(s, oid) = 0 THEN 0 ELSE 1

----------------------------------------------------------------------------
(* serialize_todo and the update set *)

\* a serializer that forgets the description
serialize_todo_NoDescription(doc) ==
    [id |-> OidStr(doc["_id"]),
     title |-> Get(doc, "title", Str(<<>>)),
     description |-> None,
     completed |-> Get(doc, "completed", Bool(FALSE)),
     priority |-> Get(doc, "priority", None)]

serialize_todo(doc) ==
    [id |-> OidStr(doc["_id"]),
     title |-> Get(doc, "title", Str(<<>>)),
     description |-> Get(doc, "description", None),
     completed |-> Get(doc, "completed", Bool(FALSE)),
     priority |-> Get(doc, "priority", None)]

\* {k: v for k, v in payload.model_dump().items() if v is not None}, plus updated_at
UpdateSet(payload, now) ==
    [k \in {f \in Fields : model_dump(payload)[f] # None} \cup {"updated_at"} |->
        IF k = "updated_at" THEN now ELSE model_dump(payload)[k]]

----------------------------------------------------------------------------
(* Requests and responses *)

NoId == <<>>

NoBody == <<>>

Response(op, id, raw, status, body) ==
    [op |-> op, id |-> id, raw |-> raw, status |-> status, body |-> body]

\* the keys the requests name: those of the first two documents created
TargetKeys == {NewKey(0), NewKey(1)}

Malformed == { <<"x", "y", "z">>,
               [i \in 1..OidHexLen |-> IF i = OidHexLen THEN "g" ELSE "0"] }

IdStrings ==
    {OidStr(k) : k \in TargetKeys} \cup {ToUpper(OidStr(NewKey(0)))} \cup Malformed

\* FastAPI's answer to a body that is no TodoIn
Unprocessable(op, todo_id, raw) == Response(op, todo_id, raw, 422, "validation")

\* the identifier parsed inside the handler's main try block
InvalidId_ServerError(op, todo_id, raw) ==
    Response(op, todo_id, raw, 500, "is not a valid ObjectId")

\* except Exception: raise HTTPException(status_code=400, detail="Invalid ID")
InvalidId(op, todo_id, raw) == Response(op, todo_id, raw, 400, "Invalid ID")

\* [serialize_todo(d) for d in docs]
ListBody(s) ==
    LET docs == get_documents(s, ListLimit)
    IN [i \in 1..Len(docs) |-> serialize_todo(docs[i])]

\* a create that answers from its payload without reading the document back
ReadBack_FromPayload(s, raw, inserted_id) ==
    Response("create", NoId, raw, 200,
        [id |-> inserted_id,
         title |-> TodoIn(raw)["title"],
         description |-> TodoIn(raw)["description"],
         completed |-> TodoIn(raw)["completed"],
         priority |-> TodoIn(raw)["priority"]])

\* lines 61-64 of create_todo: read the inserted document back and answer
ReadBack(s, raw, inserted_id) ==
    LET doc == find_one(s, ObjectId(inserted_id))
    IN IF doc = <<>>
       THEN Response("create", NoId, raw, 500,
                "'NoneType' object has no attribute 'get'")
       ELSE Response("create", NoId, raw, 200, serialize_todo(doc[1]))

\* lines 82-84 of update_todo: res is the document after the update, or None
UpdateResult(todo_id, raw, res) ==
    IF res = <<>>
    THEN Response("update", todo_id, raw, 404, "Not found")
    ELSE Response("update", todo_id, raw, 200, serialize_todo(res[1]))

\* a delete that does not look at deleted_count
DeleteResult_AlwaysOk(todo_id, count) ==
    Response("delete", todo_id, NoBody, 200, [ok |-> TRUE])

\* lines 100-102 of delete_todo
DeleteResult(todo_id, count) ==
    IF count = 0
    THEN Response("delete", todo_id, NoBody, 404, "Not found")
    ELSE Response("delete", todo_id, NoBody, 200, [ok |-> TRUE])

----------------------------------------------------------------------------
(* The handlers *)

NoResponse == Response("none", NoId, NoBody, 0, NoBody)

Init ==
    /\ store = <<>>
    /\ nextId = 0
    /\ clock = 0
    /\ pending = <<>>
    /\ resp = NoResponse

\* the collection already holds documents when the first request arrives
InitFull ==
    /\ store = OldStore
    /\ nextId = 0
    /\ clock = 0
    /\ pending = <<>>
    /\ resp = NoResponse

\* list_todos()
list_todos ==
    /\ resp' = Response("list", NoId, NoBody, 200, ListBody(store))
    /\ UNCHANGED <<store, nextId, clock, pending>>

\* create_todo(payload), with no other request between its two store calls
create_todo(raw) ==
    /\ pending = <<>>
    /\ IF ~Valid(raw)
       THEN /\ resp' = Unprocessable("create", NoId, raw)
            /\ UNCHANGED <<store, nextId>>
       ELSE /\ nextId < MaxCreates
            /\ store' = create_document(store, TodoIn(raw), NewKey(nextId))
            /\ nextId' = nextId + 1
            /\ resp' = ReadBack(store', raw, OidStr(NewKey(nextId)))
    /\ UNCHANGED <<clock, pending>>

\* line 59 of create_todo: the insert, the request then waiting to read back
create_insert(raw) ==
    /\ pending = <<>>
    /\ Valid(raw)
    /\ nextId < MaxCreates
    /\ store' = create_document(store, TodoIn(raw), NewKey(nextId))
    /\ nextId' = nextId + 1
    /\ pending' = <<[raw |-> raw, inserted_id |-> OidStr(NewKey(nextId))]>>
    /\ UNCHANGED <<clock, resp>>

\* lines 61-64 of create_todo, after other requests may have run
create_read_back ==
    /\ pending # <<>>
    /\ resp' = ReadBack(store, pending[1].raw, pending[1].inserted_id)
    /\ pending' = <<>>
    /\ UNCHANGED <<store, nextId, clock>>

\* update_todo(todo_id, payload)
update_todo(todo_id, raw) ==
    /\ IF ~Valid(raw)
       THEN /\ resp' = Unprocessable("update", todo_id, raw)
            /\ UNCHANGED <<store, clock>>
       ELSE IF ~ObjectIdValid(todo_id)
       THEN /\ resp' = InvalidId("update", todo_id, raw)
            /\ UNCHANGED <<store, clock>>
       ELSE LET oid == ObjectId(todo_id)
            IN /\ clock < MaxClock
               /\ clock' = clock + 1
               /\ store' = find_one_and_update(store, oid,
                               UpdateSet(TodoIn(raw), clock'))
               /\ resp' = UpdateResult(todo_id, raw, find_one(store', oid))
    /\ UNCHANGED <<nextId, pending>>

\* delete_todo(todo_id)
delete_todo(todo_id) ==
    /\ IF ~ObjectIdValid(todo_id)
       THEN /\ resp' = InvalidId("delete", todo_id, NoBody)
            /\ UNCHANGED store
       ELSE LET oid == ObjectId(todo_id)
            IN /\ store' = delete_one(store, oid)
               /\ resp' = DeleteResult(todo_id, deleted_count(store, oid))
    /\ UNCHANGED <<nextId, clock, pending>>

\* one request at a time
Next ==
    \/ list_todos
    \/ \E raw \in Payloads : create_todo(raw)
    \/ \E todo_id \in IdStrings, raw \in Payloads : update_todo(todo_id, raw)
    \/ \E todo_id \in IdStrings : delete_todo(todo_id)

\* requests running between the two store calls of one create_todo
NextConc ==
    \/ list_todos
    \/ \E raw \in Payloads : create_insert(raw)
    \/ create_read_back
    \/ \E todo_id \in IdStrings, raw \in Payloads : update_todo(todo_id, raw)
    \/ \E todo_id \in IdStrings : delete_todo(todo_id)

Spec == Init /\ [][Next]_vars

SpecFull == InitFull /\ [][Next]_vars

SpecConc == Init /\ [][NextConc]_vars

----------------------------------------------------------------------------
(* Properties *)

\* the document stored under a key
DocOf(s, oid) == s[Index(s, oid)]

Stored(s, oid) == Index(s, oid) # 0

\* how often an identifier occurs in a list_todos result
Count(body, id) == Cardinality({i \in 1..Len(body) : body[i].id = id})

\* the fields of a returned Todo are the values of the request's TodoIn
EchoesPayload(body, raw) == \A k \in Fields : body[k] = TodoIn(raw)[k]

\* C1 as stated: create_todo with a valid payload returns a Todo whose title,
\* description, completed and priority are the payload's values, and a
\* list_todos right after it holds the returned identifier exactly once.
C1_CreateEchoesAndListsOnce ==
    (resp.op = "create" /\ Valid(resp.raw)) =>
        /\ resp.status = 200
        /\ EchoesPayload(resp.body, resp.raw)
        /\ Count(ListBody(store), resp.body.id) = 1

\* C1 amended: the returned Todo's fields are the payload's values; a list_todos
\* right after it never holds the returned identifier twice, and holds it exactly
\* once when the collection then has at most ListLimit documents.
C1_CreateEchoesAndListsOnceWithinLimit ==
    (resp.op = "create" /\ Valid(resp.raw)) =>
        /\ resp.status = 200
        /\ EchoesPayload(resp.body, resp.raw)
        /\ LET listed == Count(ListBody(store), resp.body.id)
           IN listed <= 1 /\ (Len(store) <= ListLimit => listed = 1)

\* C1 witness: a create with every field supplied that fills the collection to
\* the limit of list_todos
C1_Witness ==
    /\ resp.op = "create"
    /\ resp.status = 200
    /\ resp.body.description # None
    /\ Len(store) = ListLimit

\* C2 as stated: update_todo is a partial merge; after a successful update every
\* field the request body does not hold keeps its stored value (an update that
\* omits completed leaves completed=true as it was).
C2_UnsuppliedFieldsKept ==
    [][(resp'.op = "update" /\ resp'.status = 200) =>
          \A k \in Fields :
              ~Has(resp'.raw, k) =>
                  DocOf(store', ObjectId(resp'.id))[k]
                    = DocOf(store, ObjectId(resp'.id))[k]]_vars

\* C3 as stated: an update whose body holds only completed=false, on a stored
\* todo with completed=true, succeeds and leaves it stored and returned with
\* completed=false.
C3_OnlyCompletedFalseWritten ==
    [][(/\ resp'.op = "update"
        /\ resp'.raw = [completed |-> Bool(FALSE)]
        /\ ObjectIdValid(resp'.id)
        /\ Stored(store, ObjectId(resp'.id))
        /\ DocOf(store, ObjectId(resp'.id))["completed"] = Bool(TRUE))
       => /\ resp'.status = 200
          /\ resp'.body.completed = Bool(FALSE)
          /\ DocOf(store', ObjectId(resp'.id))["completed"] = Bool(FALSE)]_vars

\* C4: update_todo and delete_todo with a well-formed identifier whose key no
\* stored document has (never created, or deleted) answer 404, never 500.
C4_MissingIsNotFound ==
    [][(/\ resp'.op \in {"update", "delete"}
        /\ resp'.op = "update" => Valid(resp'.raw)
        /\ ObjectIdValid(resp'.id)
        /\ ~Stored(store, ObjectId(resp'.id)))
       => resp'.status = 404]_vars

\* C4 witness: an update naming the key of a document created and since deleted
C4_Witness ==
    /\ resp.op = "update"
    /\ resp.status = 404
    /\ nextId > 0
    /\ ObjectId(resp.id) = NewKey(0)

\* C5: update_todo and delete_todo with an identifier that is no valid key answer
\* 400 (422 when the body of the update is itself no TodoIn) and leave every
\* stored document, updated_at included, and the result of list_todos as they were.
C5_MalformedIdRejectedUnchanged ==
    [][(resp'.op \in {"update", "delete"} /\ ~ObjectIdValid(resp'.id)) =>
          /\ resp'.status \in {400, 422}
          /\ (resp'.op = "update" /\ Valid(resp'.raw)) => resp'.status = 400
          /\ resp'.op = "delete" => resp'.status = 400
          /\ store' = store
          /\ ListBody(store') = ListBody(store)]_vars

\* C5 witness: a malformed identifier answered 400 while documents are stored
C5_Witness ==
    /\ resp.op = "update"
    /\ resp.status = 400
    /\ Len(resp.id) = OidHexLen
    /\ store # <<>>

\* the keys the driver has assigned so far
Assigned == {NewKey(n) : n \in 0..(nextId - 1)}

\* C6: a delete_todo answered {ok: true} removes exactly the document named and
\* leaves the others as they were; a key once deleted is never stored again,
\* later delete_todo and update_todo naming it answer 404, and no list_todos
\* result holds it.
C6_DeleteRemovesOneForGood ==
    [][/\ (resp'.op = "delete" /\ resp'.status = 200) =>
              /\ Stored(store, ObjectId(resp'.id))
              /\ ~Stored(store', ObjectId(resp'.id))
              /\ store' = SelectSeq(store,
                              LAMBDA d : d["_id"] # ObjectId(resp'.id))
       /\ \A k \in Assigned :
              ~Stored(store, k) =>
                  /\ ~Stored(store', k)
                  /\ (/\ resp'.op \in {"update", "delete"}
                      /\ resp'.op = "update" => Valid(resp'.raw)
                      /\ ObjectIdValid(resp'.id)
                      /\ ObjectId(resp'.id) = k) => resp'.status = 404
                  /\ resp'.op = "list" => Count(resp'.body, OidStr(k)) = 0]_vars

\* C6 witness: a second delete of a deleted document, another one still stored
C6_Witness ==
    /\ resp.op = "delete"
    /\ resp.status = 404
    /\ ObjectId(resp.id) \in Assigned
    /\ store # <<>>

\* C7: applying the update just answered once more leaves every field of every
\* stored document but updated_at, and the returned Todo, as the first
\* application left them.
C7_UpdateTwiceIsUpdateOnce ==
    (resp.op = "update" /\ resp.status = 200) =>
        LET oid == ObjectId(resp.id)
            again == find_one_and_update(store, oid,
                         UpdateSet(TodoIn(resp.raw), clock + 1))
        IN /\ Len(again) = Len(store)
           /\ \A i \in 1..Len(store) :
                  /\ DOMAIN again[i] = DOMAIN store[i]
                  /\ \A k \in DOMAIN store[i] \ {"updated_at"} :
                         again[i][k] = store[i][k]
           /\ again[Index(store, oid)]["updated_at"] = clock + 1
           /\ UpdateResult(resp.id, resp.raw, find_one(again, oid)) = resp

\* C7 witness: an update that changed the title and completed of a document
C7_Witness ==
    /\ resp.op = "update"
    /\ resp.status = 200
    /\ resp.body.title = Str(Rep(MinTitleLen))
    /\ resp.body.description = Str(<<"d">>)

\* no two stored documents share a key
UniqueKeys(s) == \A i, j \in 1..Len(s) : s[i]["_id"] = s[j]["_id"] => i = j

\* an update leaves the key of every stored document alone
KeysKept(s, t) == Len(t) = Len(s) /\ \A i \in 1..Len(s) : t[i]["_id"] = s[i]["_id"]

\* the identifier create_todo returns names a key no todo had before
FreshKey(s, assigned, id) ==
    /\ ObjectIdValid(id)
    /\ ObjectId(id) \notin assigned
    /\ ~Stored(s, ObjectId(id))

\* C8 as stated: no two stored todos share an identifier, update_todo leaves the
\* identifier of its document alone and returns the identifier requested, and
\* create_todo returns an identifier no earlier todo had, deleted ones included.
C8_IdentifiersUniqueStableFresh ==
    [][/\ UniqueKeys(store')
       /\ (resp'.op = "update" /\ resp'.status = 200) =>
              /\ KeysKept(store, store')
              /\ resp'.body.id = resp'.id
       /\ (resp'.op = "create" /\ resp'.status = 200) =>
              FreshKey(store, Assigned, resp'.body.id)]_vars

\* C8 amended: as C8, but the identifier update_todo returns is the requested
\* one written in lower case, the form str() gives the key it denotes.
C8_IdentifiersUniqueStableFreshCanonical ==
    [][/\ UniqueKeys(store')
       /\ (resp'.op = "update" /\ resp'.status = 200) =>
              /\ KeysKept(store, store')
              /\ resp'.body.id = OidStr(ObjectId(resp'.id))
              /\ resp'.body.id = OidStr(DocOf(store', ObjectId(resp'.id))["_id"])
       /\ (resp'.op = "create" /\ resp'.status = 200) =>
              FreshKey(store, Assigned, resp'.body.id)]_vars

\* C8 witness: an update requested with upper-case digits, after two creates
C8_Witness ==
    /\ resp.op = "update"
    /\ resp.status = 200
    /\ resp.id # resp.body.id
    /\ Len(store) = 2

\* C9: a create or update whose title has length 0 or 201 is answered with a
\* client error and the store is as it was; a title of length 200, in a body
\* whose other fields are well-formed, is accepted and stored, by create_todo
\* and by update_todo of a stored document.
C9_TitleBounds ==
    [][/\ (/\ resp'.op \in {"create", "update"}
           /\ Has(resp'.raw, "title")
           /\ Len(resp'.raw["title"].v) \in {0, 201})
          => /\ resp'.status = 422
             /\ store' = store
       /\ (/\ resp'.op = "create"
           /\ Has(resp'.raw, "title")
           /\ Len(resp'.raw["title"].v) = 200
           /\ DescriptionOk(resp'.raw)
           /\ CompletedOk(resp'.raw)
           /\ PriorityOk(resp'.raw))
          => /\ resp'.status = 200
             /\ Len(store') = Len(store) + 1
             /\ store'[Len(store')]["title"] = resp'.raw["title"]
             /\ resp'.body.title = resp'.raw["title"]
       /\ (/\ resp'.op = "update"
           /\ Has(resp'.raw, "title")
           /\ Len(resp'.raw["title"].v) = 200
           /\ DescriptionOk(resp'.raw)
           /\ CompletedOk(resp'.raw)
           /\ PriorityOk(resp'.raw)
           /\ ObjectIdValid(resp'.id)
           /\ Stored(store, ObjectId(resp'.id)))
          => /\ resp'.status = 200
             /\ DocOf(store', ObjectId(resp'.id))["title"] = resp'.raw["title"]]_vars

\* C9 witness: a title of length 201 refused while one of length 200 is stored
C9_Witness ==
    /\ resp.op \in {"create", "update"}
    /\ resp.status = 422
    /\ Has(resp.raw, "title")
    /\ Len(resp.raw["title"].v) = 201
    /\ \E i \in 1..Len(store) : Len(store[i]["title"].v) = 200

\* C10: when the document a create_todo inserted is deleted before the create
\* reads it back, the create answers with a failure, not with a Todo, and the
\* store stays without the document; when it is still stored the create succeeds.
C10_DeleteBetweenInsertAndReadBack ==
    [][(pending # <<>> /\ pending' = <<>>) =>
          LET key == ObjectId(pending[1].inserted_id)
          IN /\ resp'.op = "create"
             /\ ~Stored(store, key) =>
                    /\ resp'.status = 500
                    /\ ~Stored(store', key)
             /\ Stored(store, key) => resp'.status = 200]_vars

\* C10 witness: a create answered with the failure of its read-back
C10_Witness ==
    /\ resp.op = "create"
    /\ resp.status = 500
    /\ pending = <<>>
    /\ nextId > 0
    /\ ~Stored(store, NewKey(nextId - 1))

====
